---- MODULE Spec2Model ----
(***************************************************************************)
(* Model of the PgBouncer construct of maap-pgstac (cdk/PgBouncer.ts):     *)
(* the capacity estimate (calculateMaxConnections), the default pool       *)
(* policy (getDefaultConfig), the merge of the caller's overrides over the *)
(* defaults and the constructor's resource creation, statement by          *)
(* statement.                                                              *)
(***************************************************************************)
EXTENDS Integers, FiniteSets, Sequences, TLC

\* ------------------------------------------------------------------------
\* Bounds of the model
\* ------------------------------------------------------------------------

\* at most this many fields are given in props.pgBouncerConfig at once
\* (the configuration the stack deploys, DeployedConfig, is always included)
MaxOverridden == 2

\* ------------------------------------------------------------------------
\* Values: a TypeScript optional property is absent, undefined or a value
\* ------------------------------------------------------------------------

Val(v) == [st |-> "value", val |-> v]

Undefined == [st |-> "undefined", val |-> 0]

Absent == [st |-> "absent", val |-> 0]

UndefinedMode == [st |-> "undefined", val |-> "undefined"]

AbsentMode == [st |-> "absent", val |-> "undefined"]

\* the fields of PgBouncerConfigProps
Fields ==
  {"poolMode", "maxClientConn", "defaultPoolSize", "minPoolSize",
   "reservePoolSize", "reservePoolTimeout", "maxDbConnections",
   "maxUserConnections"}

\* ------------------------------------------------------------------------
\* Capacity estimate
\* ------------------------------------------------------------------------

\* faulty variant: the memory of the instance types entered in GB
instanceMemoryMapGb ==
  [t \in {"t3.micro", "t3.small", "t3.medium"} |->
     CASE t = "t3.micro"  -> 1
       [] t = "t3.small"  -> 2
       [] t = "t3.medium" -> 4]

\* memory of the database instance types the construct knows, in MB
instanceMemoryMapMb ==
  [t \in {"t3.micro", "t3.small", "t3.medium"} |->
     CASE t = "t3.micro"  -> 1024
       [] t = "t3.small"  -> 2048
       [] t = "t3.medium" -> 4096]

\* the constant subtracted for OS overhead, in MB
OsReservedMb == 300

\* the divisor of the default max_connections formula, in bytes
BytesPerConnection == 9531392

\* the upper limit of the default max_connections formula
HardCap == 5000

\* the connections kept back from the pooler
SafetyMargin == 10

\* Math.round of the quotient n / d, n >= 0, d > 0: the nearest integer,
\* halves up
MathRound(n, d) == (n \div d) + (IF 2 * (n % d) >= d THEN 1 ELSE 0)

\* Math.min
MathMin(a, b) == IF a <= b THEN a ELSE b

\* the result of a call: a returned value, or a thrown error
Return(v) == [ok |-> TRUE, value |-> v, error |-> "none"]

Throw(e) == [ok |-> FALSE, value |-> 0, error |-> e]

\* faulty variant: the OS overhead is not subtracted
calculateMaxConnections_NoOsOverhead(dbInstanceType) ==
  IF dbInstanceType \notin DOMAIN instanceMemoryMapMb
       \/ instanceMemoryMapMb[dbInstanceType] = 0
  THEN Throw("UnsupportedProfile")
  ELSE LET memoryMb == instanceMemoryMapMb[dbInstanceType]
           memoryInKb == memoryMb * 1024
       IN  Return(MathMin(MathRound(memoryInKb, BytesPerConnection \div 1024),
                          HardCap))

\* faulty variant: an unknown instance type is taken to have the smallest memory
calculateMaxConnections_DefaultMemory(dbInstanceType) ==
  LET memoryMb == IF dbInstanceType \in DOMAIN instanceMemoryMapMb
                  THEN instanceMemoryMapMb[dbInstanceType] ELSE 1024
      memoryInKb == (memoryMb - OsReservedMb) * 1024
  IN  Return(MathMin(MathRound(memoryInKb, BytesPerConnection \div 1024),
                     HardCap))

\* throws for an instance type without a (non-zero) entry in the map.
\* memoryInBytes / 9531392 is computed as memoryInKb / (9531392 / 1024):
\* 9531392 = 1024 * 9308, so the quotient is the same number, and the
\* numerator stays within the 32-bit integers of the model checker
calculateMaxConnections(dbInstanceType) ==
  IF dbInstanceType \notin DOMAIN instanceMemoryMapMb
       \/ instanceMemoryMapMb[dbInstanceType] = 0
  THEN Throw("UnsupportedProfile")
  ELSE LET memoryMb == instanceMemoryMapMb[dbInstanceType]
           memoryInKb == (memoryMb - OsReservedMb) * 1024
       IN  Return(MathMin(MathRound(memoryInKb, BytesPerConnection \div 1024),
                          HardCap))

\* ------------------------------------------------------------------------
\* Pool policy
\* ------------------------------------------------------------------------

\* faulty variant: the connection limits are the estimate itself, no margin kept
getDefaultConfig_NoMargin(dbInstanceType) ==
  LET r == calculateMaxConnections(dbInstanceType)
  IN  IF ~r.ok
      THEN r
      ELSE Return(
        [poolMode           |-> Val("transaction"),
         maxClientConn      |-> Val(1000),
         defaultPoolSize    |-> Val(5),
         minPoolSize        |-> Val(0),
         reservePoolSize    |-> Val(5),
         reservePoolTimeout |-> Val(5),
         maxDbConnections   |-> Val(r.value),
         maxUserConnections |-> Val(r.value)])

\* faulty variant: the static pool sizes are those of the deployed configuration
getDefaultConfig_DeployedSizes(dbInstanceType) ==
  LET r == calculateMaxConnections(dbInstanceType)
  IN  IF ~r.ok
      THEN r
      ELSE Return(
        [poolMode           |-> Val("transaction"),
         maxClientConn      |-> Val(1000),
         defaultPoolSize    |-> Val(20),
         minPoolSize        |-> Val(10),
         reservePoolSize    |-> Val(5),
         reservePoolTimeout |-> Val(5),
         maxDbConnections   |-> Val(r.value - SafetyMargin),
         maxUserConnections |-> Val(r.value - SafetyMargin)])

\* the defaults; the error of calculateMaxConnections propagates
getDefaultConfig(dbInstanceType) ==
  LET r == calculateMaxConnections(dbInstanceType)
  IN  IF ~r.ok
      THEN r
      ELSE Return(
        [poolMode           |-> Val("transaction"),
         maxClientConn      |-> Val(1000),
         defaultPoolSize    |-> Val(5),
         minPoolSize        |-> Val(0),
         reservePoolSize    |-> Val(5),
         reservePoolTimeout |-> Val(5),
         maxDbConnections   |-> Val(r.value - SafetyMargin),
         maxUserConnections |-> Val(r.value - SafetyMargin)])

\* { ...defaultConfig, ...overrides }: every own key of the overrides
\* replaces the default's, whatever its value (undefined included)
SpreadMerge(defaultConfig, overrides) ==
  [f \in Fields |->
     IF overrides[f].st # "absent" THEN overrides[f] ELSE defaultConfig[f]]


\* the ten export commands and the setup script; readFileSync throws when
\* the script file cannot be read
EnvText(v) == IF v.st = "value" THEN ToString(v.val) ELSE "undefined"

loadUserDataScript(config, database, scriptReadable) ==
  IF ~scriptReadable
  THEN Throw("ENOENT")
  ELSE Return(
    [SECRET_ARN           |-> database.secret,
     REGION               |-> "region",
     POOL_MODE            |-> config.poolMode.val,
     MAX_CLIENT_CONN      |-> EnvText(config.maxClientConn),
     DEFAULT_POOL_SIZE    |-> EnvText(config.defaultPoolSize),
     MIN_POOL_SIZE        |-> EnvText(config.minPoolSize),
     RESERVE_POOL_SIZE    |-> EnvText(config.reservePoolSize),
     RESERVE_POOL_TIMEOUT |-> EnvText(config.reservePoolTimeout),
     MAX_DB_CONNECTIONS   |-> EnvText(config.maxDbConnections),
     MAX_USER_CONNECTIONS |-> EnvText(config.maxUserConnections),
     script               |-> "pgbouncer-setup.sh"])

\* ------------------------------------------------------------------------
\* Inputs of the constructor
\* ------------------------------------------------------------------------

\* database instance types handed to the construct: the three of the map
\* and one the map does not know
DbInstanceTypes == {"t3.micro", "t3.small", "t3.medium", "t3.large"}

NoOverrides == [f \in Fields |-> IF f = "poolMode" THEN AbsentMode ELSE Absent]

\* faulty variant: the stack asks for a default pool of 70
DeployedConfig_LargePool ==
  [poolMode           |-> Val("transaction"),
   maxClientConn      |-> Val(1000),
   defaultPoolSize    |-> Val(70),
   minPoolSize        |-> Val(10),
   reservePoolSize    |-> Val(5),
   reservePoolTimeout |-> Val(5),
   maxDbConnections   |-> Absent,
   maxUserConnections |-> Absent]

\* the pgBouncerConfig the stack passes
DeployedConfig ==
  [poolMode           |-> Val("transaction"),
   maxClientConn      |-> Val(1000),
   defaultPoolSize    |-> Val(20),
   minPoolSize        |-> Val(10),
   reservePoolSize    |-> Val(5),
   reservePoolTimeout |-> Val(5),
   maxDbConnections   |-> Absent,
   maxUserConnections |-> Absent]

Overridden(o) == {f \in Fields : o[f].st # "absent"}

\* values of PgBouncerConfigProps: every field optional, so absent,
\* undefined or a value of its type
OverrideValues ==
  [poolMode           : {AbsentMode, UndefinedMode, Val("session")},
   maxClientConn      : {Absent, Undefined, Val(0), Val(500)},
   defaultPoolSize    : {Absent, Undefined, Val(10), Val(20)},
   minPoolSize        : {Absent, Undefined, Val(10), Val(20)},
   reservePoolSize    : {Absent, Undefined, Val(1), Val(10)},
   reservePoolTimeout : {Absent, Undefined, Val(-1), Val(10)},
   maxDbConnections   : {Absent, Undefined, Val(50), Val(500)},
   maxUserConnections : {Absent, Undefined, Val(50), Val(500)}]

Overrides ==
  {o \in OverrideValues : Cardinality(Overridden(o)) <= MaxOverridden}
    \cup {DeployedConfig}

PropsSet ==
  [database         : [instanceType : DbInstanceTypes, secret : {"secretArn"}],
   instanceType     : {Absent, Val("t3.small")},
   usePublicSubnet  : {Absent, Val(TRUE)},
   pgBouncerConfig  : Overrides]

\* ------------------------------------------------------------------------
\* State
\* ------------------------------------------------------------------------

VARIABLES
  props,            \* the PgBouncerProps the constructor is called with
  scriptReadable,   \* whether scripts/pgbouncer-setup.sh can be read
  pc,               \* the constructor's position
  error,            \* the error the constructor threw, "none" if none
  maxConnections,   \* getDefaultConfig's maxConnections, once computed
  pgBouncerConfig,  \* the merged configuration, once computed
  role,             \* the instance role, once created
  instance,         \* the ec2 instance with its user data, once created
  ingress,          \* the rule allowing the instance to reach the database
  endpoint          \* this.endpoint

\* the instance the construct launches: what pgbouncer-setup.sh and the
\* jobs it installs do on it
VARIABLES
  boots,            \* the number of boots of the instance so far
  setup,            \* the run of the setup script: who runs it, its position
  service,          \* the pgbouncer package and unit: installed, enabled
  pooler,           \* the pgbouncer daemon: running, and the files it loaded
  files,            \* the files the setup script writes
  crontab,          \* root's crontab, line by line
  agent,            \* the CloudWatch agent: how far its setup got
  lastCheck,        \* what the last run of check-pgbouncer.sh saw and did
  lastMetrics,      \* what the last run of the metrics cron job did
  downTicks,        \* health checks run while the daemon was down
  startAttempts,    \* starts the health check attempted
  shell,            \* the bash that runs the setup script: its xtrace
                    \* option, its exit, the position of a failed command
  traceOutput       \* the variables whose values xtrace has written out

cdkVars ==
  <<props, scriptReadable, pc, error, maxConnections, pgBouncerConfig,
    role, instance, ingress, endpoint>>

hostVars ==
  <<boots, setup, service, pooler, files, crontab, agent, lastCheck,
    lastMetrics, downTicks, startAttempts, shell, traceOutput>>

vars == <<cdkVars, hostVars>>

NotComputed == Throw("none")

NoRole == [created |-> FALSE, policies |-> {}, secrets |-> {}]

NoInstance ==
  [created |-> FALSE, instanceType |-> "", subnetType |-> "",
   userData |-> NotComputed]

\* a file the setup script has not written
NoFile == [state |-> "none", boot |-> 0, secured |-> FALSE]

\* no run of check-pgbouncer.sh yet
NoCheck ==
  [ran |-> FALSE, boot |-> 0, during |-> [runner |-> "none", pc |-> "off"],
   poolerWasRunning |-> FALSE, matched |-> FALSE,
   startAttempted |-> FALSE, started |-> FALSE, logged |-> FALSE]

\* no bash runs the setup script
NoShell == [xtrace |-> FALSE, status |-> "none", failedAt |-> "none"]

\* a bash that has just been started on the setup script: xtrace is off
\* until line 2 sets it
NewShell == [xtrace |-> FALSE, status |-> "running", failedAt |-> "none"]

\* the instance before its launch
NotLaunched ==
  /\ boots = 0
  /\ setup = [runner |-> "none", pc |-> "off"]
  /\ service = [installed |-> FALSE, enabled |-> FALSE]
  /\ pooler = [running |-> FALSE, ini |-> NoFile, userlist |-> NoFile]
  /\ files = [ini |-> NoFile, userlist |-> NoFile, checkScript |-> FALSE,
              metricsScript |-> FALSE, perBootScript |-> FALSE]
  /\ crontab = <<>>
  /\ agent = "none"
  /\ lastCheck = NoCheck
  /\ lastMetrics = "none"
  /\ downTicks = 0
  /\ startAttempts = 0
  /\ shell = NoShell
  /\ traceOutput = {}

Init ==
  /\ NotLaunched
  /\ props \in PropsSet
  /\ scriptReadable \in BOOLEAN
  /\ pc = "new"
  /\ error = "none"
  /\ maxConnections = NotComputed
  /\ pgBouncerConfig = NotComputed
  /\ role = NoRole
  /\ instance = NoInstance
  /\ ingress = FALSE
  /\ endpoint = ""

\* ------------------------------------------------------------------------
\* The constructor, statement by statement
\* ------------------------------------------------------------------------

\* faulty variant: the instance role is created before the defaults are computed
ConstructorMergeConfig_RoleFirst ==
  /\ pc = "new"
  /\ role' =
       [created  |-> TRUE,
        policies |-> {"AmazonSSMManagedInstanceCore",
                      "CloudWatchAgentServerPolicy"},
        secrets  |-> {props.database.secret}]
  /\ LET defaultConfig == getDefaultConfig(props.database.instanceType)
     IN  IF ~defaultConfig.ok
         THEN /\ pc' = "failed"
              /\ error' = defaultConfig.error
              /\ UNCHANGED <<maxConnections, pgBouncerConfig>>
         ELSE /\ pc' = "merged"
              /\ maxConnections' =
                   calculateMaxConnections(props.database.instanceType)
              /\ pgBouncerConfig' =
                   Return(SpreadMerge(defaultConfig.value, props.pgBouncerConfig))
              /\ UNCHANGED error
  /\ UNCHANGED hostVars
  /\ UNCHANGED <<props, scriptReadable, instance, ingress, endpoint>>

\* super(), the defaults and the merge; getDefaultConfig's error leaves
\* the constructor
ConstructorMergeConfig ==
  /\ pc = "new"
  /\ LET defaultConfig == getDefaultConfig(props.database.instanceType)
     IN  IF ~defaultConfig.ok
         THEN /\ pc' = "failed"
              /\ error' = defaultConfig.error
              /\ UNCHANGED <<maxConnections, pgBouncerConfig>>
         ELSE /\ pc' = "merged"
              /\ maxConnections' =
                   calculateMaxConnections(props.database.instanceType)
              /\ pgBouncerConfig' =
                   Return(SpreadMerge(defaultConfig.value, props.pgBouncerConfig))
              /\ UNCHANGED error
  /\ UNCHANGED hostVars
  /\ UNCHANGED <<props, scriptReadable, role, instance, ingress, endpoint>>

\* new iam.Role and role.addToPolicy
ConstructorCreateRole ==
  /\ pc = "merged"
  /\ role' =
       [created  |-> TRUE,
        policies |-> {"AmazonSSMManagedInstanceCore",
                      "CloudWatchAgentServerPolicy"},
        secrets  |-> {props.database.secret}]
  /\ pc' = "role"
  /\ UNCHANGED hostVars
  /\ UNCHANGED <<props, scriptReadable, error, maxConnections,
                 pgBouncerConfig, instance, ingress, endpoint>>

\* new ec2.Instance, its user data loaded first
ConstructorCreateInstance ==
  /\ pc = "role"
  /\ LET userData ==
           loadUserDataScript(pgBouncerConfig.value, props.database,
                              scriptReadable)
     IN  IF ~userData.ok
         THEN /\ pc' = "failed"
              /\ error' = userData.error
              /\ UNCHANGED instance
         ELSE /\ pc' = "instance"
              /\ instance' =
                   [created      |-> TRUE,
                    instanceType |->
                      IF props.instanceType.st = "value"
                      THEN props.instanceType.val ELSE "t3.micro",
                    subnetType   |->
                      IF props.usePublicSubnet.st = "value"
                           /\ props.usePublicSubnet.val
                      THEN "PUBLIC" ELSE "PRIVATE_WITH_EGRESS",
                    userData     |-> userData]
              /\ UNCHANGED error
  /\ UNCHANGED hostVars
  /\ UNCHANGED <<props, scriptReadable, maxConnections, pgBouncerConfig,
                 role, ingress, endpoint>>

\* props.database.connections.allowFrom(this.instance, tcp 5432)
ConstructorAllowFrom ==
  /\ pc = "instance"
  /\ ingress' = TRUE
  /\ pc' = "ingress"
  /\ UNCHANGED hostVars
  /\ UNCHANGED <<props, scriptReadable, error, maxConnections,
                 pgBouncerConfig, role, instance, endpoint>>

\* this.endpoint = this.instance.instancePrivateIp
ConstructorSetEndpoint ==
  /\ pc = "ingress"
  /\ endpoint' = "instancePrivateIp"
  /\ pc' = "done"
  /\ UNCHANGED hostVars
  /\ UNCHANGED <<props, scriptReadable, error, maxConnections,
                 pgBouncerConfig, role, instance, ingress>>

Next ==
  \/ ConstructorMergeConfig
  \/ ConstructorCreateRole
  \/ ConstructorCreateInstance
  \/ ConstructorAllowFrom
  \/ ConstructorSetEndpoint

Spec == Init /\ [][Next]_vars


\* ------------------------------------------------------------------------
\* Properties: the capacity estimate
\* ------------------------------------------------------------------------

\* the memory of the database instance the constructor was called with
MemoryMbOfProps == instanceMemoryMapMb[props.database.instanceType]

Supported == props.database.instanceType \in DOMAIN instanceMemoryMapMb

\* min(floor(((memoryMb - 300) * 1024^2) / 9531392), 5000), the quotient
\* reduced by 1024 as in calculateMaxConnections
FloorEstimate(memoryMb) ==
  MathMin(((memoryMb - 300) * 1024) \div 9308, 5000)

\* C1: for every supported memory value the estimate is
\* min(floor(((memoryMb - 300) * 1024^2) / 9531392), 5000): the quotient is
\* rounded down.  The code rounds to nearest: 80 for 1024 MB, not 79.
C1_EstimateIsFloor ==
  maxConnections.ok =>
    maxConnections.value = FloorEstimate(MemoryMbOfProps)

\* C2 as stated: for memoryMb = 2048 the estimate is exactly 191.
C2_Estimate2048Is191 ==
  (maxConnections.ok /\ MemoryMbOfProps = 2048) =>
    maxConnections.value = 191

\* C2 as amended: for memoryMb = 2048 (t3.small) the estimate is exactly
\* 192.
C2_Estimate2048Is192 ==
  (maxConnections.ok /\ MemoryMbOfProps = 2048) =>
    maxConnections.value = 192

C2_Witness ==
  /\ props.database.instanceType = "t3.small"
  /\ maxConnections.ok
  /\ maxConnections.value = 192

\* C3: for every supported profile the estimate is strictly greater than 0
\* and at most the hard cap of 5000.
C3_EstimateInRange ==
  (pc # "new" /\ Supported) =>
    /\ maxConnections.ok
    /\ maxConnections.value > 0
    /\ maxConnections.value <= 5000

C3_Witness ==
  /\ pc = "merged"
  /\ props.database.instanceType = "t3.medium"
  /\ maxConnections.ok
  /\ maxConnections.value > 0

\* C4: for an instance type that is not in the memory map the estimate
\* fails with UnsupportedProfile and yields no number: no estimate and no
\* policy exist afterwards, and the constructor has ended.
C4_UnsupportedProfileThrows ==
  (pc # "new" /\ ~Supported) =>
    /\ pc = "failed"
    /\ error = "UnsupportedProfile"
    /\ ~maxConnections.ok
    /\ ~pgBouncerConfig.ok

C4_Witness ==
  /\ props.database.instanceType = "t3.large"
  /\ pc = "failed"
  /\ error = "UnsupportedProfile"

\* ------------------------------------------------------------------------
\* Properties: the pool policy
\* ------------------------------------------------------------------------

\* C5: with no overrides, maxDbConnections = maxUserConnections =
\* estimate - 10, so maxDbConnections <= maxBackendConnections - 10.
C5_DefaultsKeepMargin ==
  (pgBouncerConfig.ok /\ Overridden(props.pgBouncerConfig) = {}) =>
    /\ pgBouncerConfig.value.maxDbConnections = Val(maxConnections.value - 10)
    /\ pgBouncerConfig.value.maxUserConnections =
         Val(maxConnections.value - 10)
    /\ pgBouncerConfig.value.maxDbConnections.val <= maxConnections.value - 10

C5_Witness ==
  /\ pgBouncerConfig.ok
  /\ props.pgBouncerConfig = NoOverrides
  /\ pgBouncerConfig.value.maxDbConnections.st = "value"


\* C6: every policy the constructor builds has maxDbConnections <=
\* estimate - 10, and an override of maxDbConnections above that bound
\* makes the constructor fail with InvalidConfig before any user data is
\* handed to an instance.  The code validates nothing: the override 500 is
\* taken as it is.
C6_PolicyKeepsMargin ==
  /\ (pgBouncerConfig.ok /\ pgBouncerConfig.value.maxDbConnections.st = "value")
       => pgBouncerConfig.value.maxDbConnections.val
            <= maxConnections.value - 10
  /\ (/\ pc # "new"
      /\ Supported
      /\ props.pgBouncerConfig.maxDbConnections.st = "value"
      /\ props.pgBouncerConfig.maxDbConnections.val
           > calculateMaxConnections(props.database.instanceType).value - 10)
       => (error = "InvalidConfig" /\ ~instance.created)

\* C7: either the constructor fails with InvalidConfig or the policy has
\* minPoolSize <= defaultPoolSize; the override {minPoolSize: 20,
\* defaultPoolSize: 10} fails with InvalidConfig.  The code accepts it.
C7_MinPoolAtMostDefault ==
  (/\ pc # "new"
   /\ Supported
   /\ props.pgBouncerConfig.minPoolSize.st # "undefined"
   /\ props.pgBouncerConfig.defaultPoolSize.st # "undefined") =>
    \/ error = "InvalidConfig"
    \/ /\ pgBouncerConfig.ok
       /\ pgBouncerConfig.value.minPoolSize.val
            <= pgBouncerConfig.value.defaultPoolSize.val

\* C8: the policy is the field-by-field merge of the overrides over the
\* defaults: a field holds the override's value when the override gives
\* one and the default's otherwise, so every field is defined.  The spread
\* copies a key whose value is undefined over the default.
C8_MergeFieldByField ==
  pgBouncerConfig.ok =>
    \A f \in Fields :
      /\ pgBouncerConfig.value[f].st = "value"
      /\ pgBouncerConfig.value[f] =
           IF props.pgBouncerConfig[f].st = "value"
           THEN props.pgBouncerConfig[f]
           ELSE getDefaultConfig(props.database.instanceType).value[f]

\* C9: with no overrides the static fields of the policy are poolMode =
\* transaction, maxClientConn = 1000, defaultPoolSize = 5, minPoolSize = 0,
\* reservePoolSize = 5 and reservePoolTimeout = 5, for every supported
\* profile.
C9_StaticDefaults ==
  (pc # "new" /\ Supported /\ Overridden(props.pgBouncerConfig) = {}) =>
    /\ pgBouncerConfig.ok
    /\ pgBouncerConfig.value.poolMode = Val("transaction")
    /\ pgBouncerConfig.value.maxClientConn = Val(1000)
    /\ pgBouncerConfig.value.defaultPoolSize = Val(5)
    /\ pgBouncerConfig.value.minPoolSize = Val(0)
    /\ pgBouncerConfig.value.reservePoolSize = Val(5)
    /\ pgBouncerConfig.value.reservePoolTimeout = Val(5)

C9_Witness ==
  /\ pc = "done"
  /\ props.pgBouncerConfig = NoOverrides
  /\ instance.userData.value.DEFAULT_POOL_SIZE = "5"

\* ------------------------------------------------------------------------
\* Properties: the constructor
\* ------------------------------------------------------------------------

\* C10: when the constructor fails with UnsupportedProfile or
\* InvalidConfig, no instance role, no instance, no user data and no
\* ingress rule have been created and no endpoint is set.
C10_NoPartialStartup ==
  error \in {"UnsupportedProfile", "InvalidConfig"} =>
    /\ pc = "failed"
    /\ role = NoRole
    /\ instance = NoInstance
    /\ ~instance.userData.ok
    /\ ~ingress
    /\ endpoint = ""

C10_Witness ==
  /\ error = "UnsupportedProfile"
  /\ ~role.created
  /\ ~instance.created
  /\ ~ingress


\* ------------------------------------------------------------------------
\* The instance: bounds and inputs
\* ------------------------------------------------------------------------

\* the instance boots at most this many times
MaxBoots == 2

\* the counters of health checks stop counting here
MaxCount == 2

\* the props the stack constructs the pooler with, for each database
\* instance type the construct supports
DeployedProps ==
  [database         : [instanceType : DOMAIN instanceMemoryMapMb,
                       secret : {"secretArn"}],
   instanceType     : {Absent},
   usePublicSubnet  : {Absent, Val(TRUE)},
   pgBouncerConfig  : {DeployedConfig}]

\* the state the constructor ends in for props p
Constructed(p) ==
  /\ props = p
  /\ scriptReadable = TRUE
  /\ pc = "done"
  /\ error = "none"
  /\ maxConnections = calculateMaxConnections(p.database.instanceType)
  /\ pgBouncerConfig =
       Return(SpreadMerge(getDefaultConfig(p.database.instanceType).value,
                          p.pgBouncerConfig))
  /\ role =
       [created  |-> TRUE,
        policies |-> {"AmazonSSMManagedInstanceCore",
                      "CloudWatchAgentServerPolicy"},
        secrets  |-> {p.database.secret}]
  /\ instance =
       [created      |-> TRUE,
        instanceType |-> "t3.micro",
        subnetType   |->
          IF p.usePublicSubnet.st = "value" /\ p.usePublicSubnet.val
          THEN "PUBLIC" ELSE "PRIVATE_WITH_EGRESS",
        userData     |->
          loadUserDataScript(
            SpreadMerge(getDefaultConfig(p.database.instanceType).value,
                        p.pgBouncerConfig),
            p.database, TRUE)]
  /\ ingress = TRUE
  /\ endpoint = "instancePrivateIp"

\* ------------------------------------------------------------------------
\* Process names and pgrep
\* ------------------------------------------------------------------------

\* the name of the daemon's process
PgbouncerName == <<"p", "g", "b", "o", "u", "n", "c", "e", "r">>

\* the file name of the health check script
CheckScriptName ==
  <<"c", "h", "e", "c", "k", "-", "p", "g", "b", "o", "u", "n", "c", "e",
    "r", ".", "s", "h">>

\* the file name of the per-boot script
PerBootScriptName ==
  <<"0", "0", "-", "r", "u", "n", "-", "c", "o", "n", "f", "i", "g", ".",
    "s", "h">>

\* the file name the per-boot script runs the setup script under
UserDataName == <<"u", "s", "e", "r", "-", "d", "a", "t", "a">>

\* the process name of a program run from the file called name: the file
\* name, cut to the 15 characters the kernel keeps
ProcessName(name) ==
  IF Len(name) <= 15 THEN name ELSE SubSeq(name, 1, 15)

\* whether the pattern occurs in the text
Occurs(pattern, text) ==
  \E i \in 1..(Len(text) - Len(pattern) + 1) :
    SubSeq(text, i, i + Len(pattern) - 1) = pattern

\* faulty variant: pgrep never finds a process
PgrepMatches_Never(pattern, processNames) == FALSE

\* pgrep pattern: some process other than pgrep itself has a name in which
\* the pattern occurs
PgrepMatches(pattern, processNames) ==
  \E n \in processNames : Occurs(pattern, n)

\* the processes on the instance while check-pgbouncer.sh runs its pgrep:
\* the script itself, the daemon when it runs, the setup script when it runs
ProcessesDuringCheck ==
  {ProcessName(CheckScriptName)}
    \cup (IF pooler.running THEN {ProcessName(PgbouncerName)} ELSE {})
    \cup (IF setup.runner = "per-boot" /\ setup.pc \notin {"off", "aborted", "done"}
          THEN {ProcessName(PerBootScriptName), ProcessName(UserDataName)}
          ELSE {})

\* ------------------------------------------------------------------------
\* systemctl
\* ------------------------------------------------------------------------

\* the daemon, started with the files now on disk
Started == [running |-> TRUE, ini |-> files.ini, userlist |-> files.userlist]

Stopped == [pooler EXCEPT !.running = FALSE]

\* systemctl start pgbouncer: nothing for a running daemon; ok tells
\* whether the daemon comes up
SystemctlStart(ok) ==
  IF pooler.running THEN pooler
  ELSE IF ok THEN Started ELSE Stopped

\* faulty variant: start in place of restart, nothing for a running daemon
SystemctlRestart_StartOnly(ok) == SystemctlStart(ok)

\* systemctl restart pgbouncer: the daemon stopped if it runs, then started
SystemctlRestart(ok) == IF ok THEN Started ELSE Stopped


\* ------------------------------------------------------------------------
\* The setup script, pgbouncer-setup.sh, command group by command group
\* ------------------------------------------------------------------------

\* the positions of the setup script, in order
SetupSteps ==
  <<"packages", "secret", "ini", "userlist", "perms", "start",
    "checkScript", "crontab", "perBoot", "agentDownload", "agentInstall",
    "agentConfig", "agentFetchConfig", "agentStart", "done">>

SetupRunning ==
  \E i \in 1..(Len(SetupSteps) - 1) : setup.pc = SetupSteps[i]

\* the position after pc
NextStep(stepPc) ==
  SetupSteps[(CHOOSE i \in 1..(Len(SetupSteps) - 1) : SetupSteps[i] = stepPc) + 1]

Advance == [setup EXCEPT !.pc = NextStep(setup.pc)]

\* the first boot of the launched instance: cloud-init runs the user data
InitHost ==
  /\ \E p \in DeployedProps : Constructed(p)
  /\ boots = 1
  /\ setup = [runner |-> "user-data", pc |-> "packages"]
  /\ service = [installed |-> FALSE, enabled |-> FALSE]
  /\ pooler = [running |-> FALSE, ini |-> NoFile, userlist |-> NoFile]
  /\ files = [ini |-> NoFile, userlist |-> NoFile, checkScript |-> FALSE,
              metricsScript |-> FALSE, perBootScript |-> FALSE]
  /\ crontab = <<>>
  /\ agent = "none"
  /\ lastCheck = NoCheck
  /\ lastMetrics = "none"
  /\ downTicks = 0
  /\ startAttempts = 0
  /\ shell = NewShell
  /\ traceOutput = {}

\* the variables lines 5-15 assign
TemplateVariables ==
  {"SECRET_ARN", "REGION", "POOL_MODE", "MAX_CLIENT_CONN",
   "DEFAULT_POOL_SIZE", "MIN_POOL_SIZE", "RESERVE_POOL_SIZE",
   "RESERVE_POOL_TIMEOUT", "MAX_DB_CONNECTIONS", "MAX_USER_CONNECTIONS",
   "CLOUDWATCH_CONFIG"}

\* the variables lines 38-45 assign: the secret and its parts
ParsedVariables ==
  {"SECRET", "DB_HOST", "DB_PORT", "DB_NAME", "DB_USER", "DB_PASSWORD"}

\* the variables whose value is the secret or the database password
SecretVariables == {"SECRET", "DB_PASSWORD"}

\* the variables the commands at a position expand or assign; for the
\* position "secret" those of lines 38-45, after line 34
Expanded(stepPc) ==
  CASE stepPc = "packages" -> TemplateVariables
    [] stepPc = "secret"   -> {"SECRET_ARN", "REGION"} \cup ParsedVariables
    [] stepPc = "ini"      ->
         {"DB_HOST", "DB_PORT", "DB_NAME", "DB_USER", "POOL_MODE",
          "MAX_CLIENT_CONN", "DEFAULT_POOL_SIZE", "MIN_POOL_SIZE",
          "RESERVE_POOL_SIZE", "RESERVE_POOL_TIMEOUT", "MAX_DB_CONNECTIONS",
          "MAX_USER_CONNECTIONS"}
    [] stepPc = "userlist" -> {"DB_USER", "DB_PASSWORD"}
    [] stepPc \in {"agentConfig", "agentFetchConfig"} ->
         {"CLOUDWATCH_CONFIG"}
    [] OTHER -> {}

\* xtrace: a command run with the option on writes the values it expands
\* or assigns to the trace
TraceWith(on, output, expanded) ==
  IF on THEN output \cup expanded ELSE output

\* the trace once a command at the position has failed: line 2 has set
\* xtrace before any command of "packages" can fail, and only line 34
\* runs before line 37 unsets it
TracedUpToFailure(stepPc) ==
  CASE stepPc = "packages" -> TraceWith(TRUE, traceOutput, TemplateVariables)
    [] stepPc = "secret"   ->
         TraceWith(shell.xtrace, traceOutput, {"SECRET_ARN"})
    [] OTHER -> TraceWith(shell.xtrace, traceOutput, Expanded(stepPc))

\* faulty variant: the failing script stops the daemon on its way out
SetupAbort_StopsPooler ==
  /\ SetupRunning
  /\ setup' = [setup EXCEPT !.pc = "aborted"]
  /\ pooler' = Stopped
  /\ UNCHANGED <<boots, service, files, crontab, agent, lastCheck,
                 lastMetrics, downTicks, startAttempts>>
  /\ shell' = [shell EXCEPT !.status = "exit1", !.failedAt = setup.pc]
  /\ traceOutput' = TracedUpToFailure(setup.pc)
  /\ UNCHANGED cdkVars

\* set -e: the command at the script's position fails and the script exits
\* with a status other than 0
SetupAbort ==
  /\ SetupRunning
  /\ setup' = [setup EXCEPT !.pc = "aborted"]
  /\ UNCHANGED <<boots, service, pooler, files, crontab, agent, lastCheck,
                 lastMetrics, downTicks, startAttempts>>
  /\ shell' = [shell EXCEPT !.status = "exit1", !.failedAt = setup.pc]
  /\ traceOutput' = TracedUpToFailure(setup.pc)
  /\ UNCHANGED cdkVars

\* set -euxo pipefail, the assignments of lines 5-15;
\* the package repository and apt-get install pgbouncer jq awscli; a first
\* installation puts the package's configuration in place and may start
\* the daemon with it
SetupPackages ==
  /\ setup.pc = "packages"
  /\ setup' = Advance
  /\ service' = [service EXCEPT !.installed = TRUE]
  /\ IF service.installed
     THEN UNCHANGED <<files, pooler>>
     ELSE /\ files' =
               [files EXCEPT
                  !.ini = [state |-> "package", boot |-> boots,
                           secured |-> FALSE]]
          /\ \E starts \in BOOLEAN :
               pooler' = IF starts
                         THEN [running |-> TRUE, ini |-> files'.ini,
                               userlist |-> files'.userlist]
                         ELSE pooler
  /\ UNCHANGED <<boots, crontab, agent, lastCheck, lastMetrics, downTicks,
                 startAttempts>>
  /\ shell' = [shell EXCEPT !.xtrace = TRUE]
  /\ traceOutput' = TraceWith(shell'.xtrace, traceOutput, Expanded(setup.pc))
  /\ UNCHANGED cdkVars

\* faulty variant: line 37, set +x, is missing
SetupSecret_NoSetPlusX ==
  /\ setup.pc = "secret"
  /\ setup' = Advance
  /\ UNCHANGED <<boots, service, pooler, files, crontab, agent, lastCheck,
                 lastMetrics, downTicks, startAttempts>>
  /\ shell' = shell
  /\ traceOutput' =
       TraceWith(shell'.xtrace,
                 TraceWith(shell.xtrace, traceOutput, {"SECRET_ARN"}),
                 Expanded(setup.pc))
  /\ UNCHANGED cdkVars

\* the echo of line 34, set +x, the secret fetched and parsed into
\* DB_HOST .. DB_PASSWORD
SetupSecret ==
  /\ setup.pc = "secret"
  /\ setup' = Advance
  /\ UNCHANGED <<boots, service, pooler, files, crontab, agent, lastCheck,
                 lastMetrics, downTicks, startAttempts>>
  /\ shell' = [shell EXCEPT !.xtrace = FALSE]
  /\ traceOutput' =
       TraceWith(shell'.xtrace,
                 TraceWith(shell.xtrace, traceOutput, {"SECRET_ARN"}),
                 Expanded(setup.pc))
  /\ UNCHANGED cdkVars

\* cat > /etc/pgbouncer/pgbouncer.ini: the content replaced, the owner and
\* mode of an existing file kept
SetupIni ==
  /\ setup.pc = "ini"
  /\ setup' = Advance
  /\ files' = [files EXCEPT
                 !.ini = [state |-> "written", boot |-> boots,
                          secured |-> files.ini.secured]]
  /\ UNCHANGED <<boots, service, pooler, crontab, agent, lastCheck,
                 lastMetrics, downTicks, startAttempts>>
  /\ UNCHANGED shell
  /\ traceOutput' = TraceWith(shell.xtrace, traceOutput, Expanded(setup.pc))
  /\ UNCHANGED cdkVars

\* echo > /etc/pgbouncer/userlist.txt, and set -x
SetupUserlist ==
  /\ setup.pc = "userlist"
  /\ setup' = Advance
  /\ files' = [files EXCEPT
                 !.userlist = [state |-> "written", boot |-> boots,
                               secured |-> files.userlist.secured]]
  /\ UNCHANGED <<boots, service, pooler, crontab, agent, lastCheck,
                 lastMetrics, downTicks, startAttempts>>
  /\ traceOutput' = TraceWith(shell.xtrace, traceOutput, Expanded(setup.pc))
  /\ shell' = [shell EXCEPT !.xtrace = TRUE]
  /\ UNCHANGED cdkVars

\* chown postgres, chmod 600 of both files; the log directories and file
SetupPerms ==
  /\ setup.pc = "perms"
  /\ setup' = Advance
  /\ files' = [files EXCEPT !.ini.secured = TRUE, !.userlist.secured = TRUE]
  /\ UNCHANGED <<boots, service, pooler, crontab, agent, lastCheck,
                 lastMetrics, downTicks, startAttempts>>
  /\ UNCHANGED <<shell, traceOutput>>
  /\ UNCHANGED cdkVars

\* systemctl enable pgbouncer; systemctl restart pgbouncer, whose failure
\* ends the script
SetupStart ==
  /\ setup.pc = "start"
  /\ service' = [service EXCEPT !.enabled = TRUE]
  /\ \E ok \in BOOLEAN :
       /\ pooler' = SystemctlRestart(ok)
       /\ setup' = IF ok THEN Advance ELSE [setup EXCEPT !.pc = "aborted"]
       /\ shell' = IF ok THEN shell
                   ELSE [shell EXCEPT !.status = "exit1", !.failedAt = setup.pc]
  /\ UNCHANGED <<boots, files, crontab, agent, lastCheck, lastMetrics,
                 downTicks, startAttempts>>
  /\ UNCHANGED traceOutput
  /\ UNCHANGED cdkVars

\* the logrotate rule, /opt/pgbouncer/scripts and check-pgbouncer.sh
SetupCheckScript ==
  /\ setup.pc = "checkScript"
  /\ setup' = Advance
  /\ files' = [files EXCEPT !.checkScript = TRUE]
  /\ UNCHANGED <<boots, service, pooler, crontab, agent, lastCheck,
                 lastMetrics, downTicks, startAttempts>>
  /\ UNCHANGED <<shell, traceOutput>>
  /\ UNCHANGED cdkVars

\* faulty variant: the entries are added to the crontab there is
SetupCrontab_Append ==
  /\ setup.pc = "crontab"
  /\ setup' = Advance
  /\ crontab' = crontab \o <<"check-pgbouncer.sh", "pgbouncer-metrics.sh">>
  /\ UNCHANGED <<boots, service, pooler, files, agent, lastCheck,
                 lastMetrics, downTicks, startAttempts>>
  /\ UNCHANGED <<shell, traceOutput>>
  /\ UNCHANGED cdkVars

\* crontab.txt written and installed as root's crontab, replacing it
SetupCrontab ==
  /\ setup.pc = "crontab"
  /\ setup' = Advance
  /\ crontab' = <<"check-pgbouncer.sh", "pgbouncer-metrics.sh">>
  /\ UNCHANGED <<boots, service, pooler, files, agent, lastCheck,
                 lastMetrics, downTicks, startAttempts>>
  /\ UNCHANGED <<shell, traceOutput>>
  /\ UNCHANGED cdkVars

\* /var/lib/cloud/scripts/per-boot/00-run-config.sh
SetupPerBoot ==
  /\ setup.pc = "perBoot"
  /\ setup' = Advance
  /\ files' = [files EXCEPT !.perBootScript = TRUE]
  /\ UNCHANGED <<boots, service, pooler, crontab, agent, lastCheck,
                 lastMetrics, downTicks, startAttempts>>
  /\ UNCHANGED <<shell, traceOutput>>
  /\ UNCHANGED cdkVars

\* the five steps of the CloudWatch agent: download, dpkg -i, config.json,
\* fetch-config, enable and start; after the last the script ends with
\* status 0
SetupAgent ==
  /\ setup.pc \in {"agentDownload", "agentInstall", "agentConfig",
                   "agentFetchConfig", "agentStart"}
  /\ setup' = Advance
  /\ agent' = setup.pc
  /\ UNCHANGED <<boots, service, pooler, files, crontab, lastCheck,
                 lastMetrics, downTicks, startAttempts>>
  /\ shell' = IF NextStep(setup.pc) = "done"
               THEN [shell EXCEPT !.status = "exit0"]
               ELSE shell
  /\ traceOutput' = TraceWith(shell.xtrace, traceOutput, Expanded(setup.pc))
  /\ UNCHANGED cdkVars


\* ------------------------------------------------------------------------
\* Boots, the per-boot script, the cron jobs and the daemon
\* ------------------------------------------------------------------------

\* a counter that stops at MaxCount
CountUp(n) == IF n < MaxCount THEN n + 1 ELSE n

CronEntries == {crontab[i] : i \in 1..Len(crontab)}

\* the instance boots again: every process ends, systemd starts the
\* enabled unit with the files on disk, cloud-init runs the per-boot
\* script if there is one
Reboot ==
  /\ boots >= 1
  /\ boots < MaxBoots
  /\ boots' = boots + 1
  /\ \E ok \in BOOLEAN :
       pooler' = IF service.enabled /\ ok THEN Started ELSE Stopped
  /\ setup' = IF files.perBootScript
              THEN [runner |-> "per-boot", pc |-> "stop"]
              ELSE [runner |-> "none", pc |-> "off"]
  /\ UNCHANGED <<service, files, crontab, agent, lastCheck, lastMetrics,
                 downTicks, startAttempts>>
  /\ shell' = NoShell
  /\ UNCHANGED traceOutput
  /\ UNCHANGED cdkVars

\* 00-run-config.sh: systemctl stop pgbouncer, then the user data fetched
\* and run; without the user data nothing more runs
PerBootScript ==
  /\ setup.pc = "stop"
  /\ pooler' = Stopped
  /\ \E fetched \in BOOLEAN :
       /\ setup' = IF fetched
                   THEN [setup EXCEPT !.pc = "packages"]
                   ELSE [setup EXCEPT !.pc = "off"]
       /\ shell' = IF fetched THEN NewShell ELSE NoShell
  /\ UNCHANGED <<boots, service, files, crontab, agent, lastCheck,
                 lastMetrics, downTicks, startAttempts>>
  /\ UNCHANGED traceOutput
  /\ UNCHANGED cdkVars

\* faulty variant: the negation of the pgrep test is missing
CheckPgbouncer_NoNegation ==
  /\ boots >= 1
  /\ "check-pgbouncer.sh" \in CronEntries
  /\ files.checkScript
  /\ LET matched == PgrepMatches(PgbouncerName, ProcessesDuringCheck)
     IN  IF matched
         THEN \E ok \in BOOLEAN :
                /\ pooler' = SystemctlStart(ok)
                /\ lastCheck' =
                     [ran |-> TRUE, boot |-> boots, during |-> setup,
                      poolerWasRunning |-> pooler.running,
                      matched |-> matched, startAttempted |-> TRUE,
                      started |-> pooler'.running, logged |-> TRUE]
                /\ startAttempts' = CountUp(startAttempts)
         ELSE /\ lastCheck' =
                   [ran |-> TRUE, boot |-> boots, during |-> setup,
                      poolerWasRunning |-> pooler.running,
                    matched |-> matched, startAttempted |-> FALSE,
                    started |-> FALSE, logged |-> FALSE]
              /\ UNCHANGED <<pooler, startAttempts>>
  /\ downTicks' = IF pooler.running THEN downTicks ELSE CountUp(downTicks)
  /\ UNCHANGED <<boots, setup, service, files, crontab, agent, lastMetrics>>
  /\ UNCHANGED <<shell, traceOutput>>
  /\ UNCHANGED cdkVars

\* the cron job of check-pgbouncer.sh, the whole script: if pgrep finds no
\* process, systemctl start and the message to the log, whatever the start
\* did
CheckPgbouncer ==
  /\ boots >= 1
  /\ "check-pgbouncer.sh" \in CronEntries
  /\ files.checkScript
  /\ LET matched == PgrepMatches(PgbouncerName, ProcessesDuringCheck)
     IN  IF ~matched
         THEN \E ok \in BOOLEAN :
                /\ pooler' = SystemctlStart(ok)
                /\ lastCheck' =
                     [ran |-> TRUE, boot |-> boots, during |-> setup,
                      poolerWasRunning |-> pooler.running,
                      matched |-> matched, startAttempted |-> TRUE,
                      started |-> pooler'.running, logged |-> TRUE]
                /\ startAttempts' = CountUp(startAttempts)
         ELSE /\ lastCheck' =
                   [ran |-> TRUE, boot |-> boots, during |-> setup,
                      poolerWasRunning |-> pooler.running,
                    matched |-> matched, startAttempted |-> FALSE,
                    started |-> FALSE, logged |-> FALSE]
              /\ UNCHANGED <<pooler, startAttempts>>
  /\ downTicks' = IF pooler.running THEN downTicks ELSE CountUp(downTicks)
  /\ UNCHANGED <<boots, setup, service, files, crontab, agent, lastMetrics>>
  /\ UNCHANGED <<shell, traceOutput>>
  /\ UNCHANGED cdkVars

\* the cron job of pgbouncer-metrics.sh: the counters of SHOW POOLS sent
\* to the metrics sink by the script, if the file is there to run
MetricsJob ==
  /\ boots >= 1
  /\ "pgbouncer-metrics.sh" \in CronEntries
  /\ lastMetrics' = IF files.metricsScript THEN "emitted" ELSE "notFound"
  /\ UNCHANGED <<boots, setup, service, pooler, files, crontab, agent,
                 lastCheck, downTicks, startAttempts>>
  /\ UNCHANGED <<shell, traceOutput>>
  /\ UNCHANGED cdkVars

\* the daemon exits
PoolerExits ==
  /\ pooler.running
  /\ pooler' = Stopped
  /\ UNCHANGED <<boots, setup, service, files, crontab, agent, lastCheck,
                 lastMetrics, downTicks, startAttempts>>
  /\ UNCHANGED <<shell, traceOutput>>
  /\ UNCHANGED cdkVars

NextHost ==
  \/ SetupAbort
  \/ SetupPackages
  \/ SetupSecret
  \/ SetupIni
  \/ SetupUserlist
  \/ SetupPerms
  \/ SetupStart
  \/ SetupCheckScript
  \/ SetupCrontab
  \/ SetupPerBoot
  \/ SetupAgent
  \/ Reboot
  \/ PerBootScript
  \/ CheckPgbouncer
  \/ MetricsJob
  \/ PoolerExits

SpecHost == InitHost /\ [][NextHost]_vars


\* ------------------------------------------------------------------------
\* Properties: the health check and the metrics job
\* ------------------------------------------------------------------------

\* C11: a health check that runs while the daemon is down starts it and
\* writes the restart message, so that the daemon runs again after the
\* check if the start succeeds.  The pgrep of the check finds the check
\* script's own process and the script does nothing.
C11_DownPoolerRestarted ==
  (lastCheck.ran /\ ~lastCheck.poolerWasRunning) =>
    /\ lastCheck.startAttempted
    /\ lastCheck.logged

\* C12: a health check that runs while the daemon runs starts nothing,
\* writes no restart message and leaves the daemon as it is; a restart
\* message is written only by a check that attempted a start.
C12_RunningPoolerUntouched ==
  [][CheckPgbouncer =>
       /\ lastCheck'.logged => lastCheck'.startAttempted
       /\ pooler.running =>
            /\ pooler' = pooler
            /\ startAttempts' = startAttempts
            /\ ~lastCheck'.startAttempted
            /\ ~lastCheck'.logged]_vars

C12_Witness ==
  /\ lastCheck.ran
  /\ lastCheck.poolerWasRunning
  /\ lastCheck.matched
  /\ pooler.running

\* C13: once the setup script has installed the crontab, every run of the
\* metrics job sends the counters of the pools to the metrics sink: the
\* script the job names exists and runs.  The setup script never writes
\* pgbouncer-metrics.sh.
C13_MetricsJobEmits ==
  lastMetrics \in {"none", "emitted"}

\* the per-boot script has stopped the daemon and the setup script it runs
\* has not yet written both configuration files
RewriteWindow ==
  /\ setup.runner = "per-boot"
  /\ setup.pc \in {"packages", "secret", "ini", "userlist"}

C15_StartAttemptedAtEveryDownTick ==
  startAttempts = downTicks


\* ------------------------------------------------------------------------
\* Properties: tracing, the probe, the restart, the crontab, the deployed
\* policy and the failures of the agent's setup
\* ------------------------------------------------------------------------

\* C25: the values of the secret and of the database password never reach
\* the trace: xtrace is off while the script is at the configuration file
\* and at the credential file, and no command that runs with xtrace on,
\* other than those of the position where line 37 turns it off, expands
\* the secret or the password.
C25_SecretsNeverTraced ==
  /\ traceOutput \cap SecretVariables = {}
  /\ (shell.status = "running" /\ setup.pc \in {"ini", "userlist"})
       => ~shell.xtrace
  /\ (shell.status = "running" /\ shell.xtrace /\ setup.pc # "secret")
       => Expanded(setup.pc) \cap SecretVariables = {}

C25_Witness ==
  /\ setup.pc = "perms"
  /\ shell.status = "running"
  /\ shell.xtrace
  /\ files.userlist = [state |-> "written", boot |-> boots, secured |-> FALSE]
  /\ "SECRET_ARN" \in traceOutput

\* C26: the pgrep of a health check finds a process exactly when the
\* daemon runs: the check script's own process and the other jobs do not
\* satisfy it.  The name of the check script's process, check-pgbouncer,
\* holds the pattern, so pgrep finds a process at every run.
C26_ProbeSeesOnlyTheDaemon ==
  lastCheck.ran => (lastCheck.matched <=> lastCheck.poolerWasRunning)

\* C27: when the setup script gets past its start step, the daemon runs
\* and has loaded the configuration and credential files this run wrote
\* in this boot and restricted to the owner, whatever ran the daemon
\* before the step.
C27_PoolerUsesThisBootsPolicy ==
  [][(SetupStart /\ setup'.pc = NextStep("start")) =>
       /\ pooler'.running
       /\ pooler'.ini = files.ini
       /\ pooler'.userlist = files.userlist
       /\ files.ini = [state |-> "written", boot |-> boots, secured |-> TRUE]
       /\ files.userlist =
            [state |-> "written", boot |-> boots, secured |-> TRUE]]_vars

C27_Witness ==
  /\ setup = [runner |-> "per-boot", pc |-> NextStep("start")]
  /\ pooler.running
  /\ pooler.ini = [state |-> "written", boot |-> boots, secured |-> TRUE]
  /\ lastCheck.ran
  /\ lastCheck.boot = boots
  /\ lastCheck.during.runner = "per-boot"
  /\ lastCheck.during.pc \in {"ini", "userlist", "perms", "start"}

\* the number of lines of root's crontab that run the job
CrontabCount(job) ==
  Cardinality({i \in 1..Len(crontab) : crontab[i] = job})

\* the positions of the setup script after the crontab's installation
PastCrontab ==
  {"perBoot", "agentDownload", "agentInstall", "agentConfig",
   "agentFetchConfig", "agentStart", "done"}

\* C28: after any number of runs of the setup script, root's crontab has
\* exactly one line for the health check and exactly one for the metrics
\* job, and no other.
C28_CrontabOneEntryEach ==
  (crontab # <<>> \/ setup.pc \in PastCrontab) =>
    /\ CrontabCount("check-pgbouncer.sh") = 1
    /\ CrontabCount("pgbouncer-metrics.sh") = 1
    /\ Len(crontab) = 2

C28_Witness ==
  /\ boots = 2
  /\ setup = [runner |-> "per-boot", pc |-> "perBoot"]
  /\ CrontabCount("check-pgbouncer.sh") = 1

\* C29: for every supported database instance type, the policy built from
\* the overrides the stack passes has minPoolSize <= defaultPoolSize and
\* defaultPoolSize + reservePoolSize <= maxDbConnections <= estimate - 10,
\* with maxDbConnections the computed default.
C29_DeployedPolicyWithinMargin ==
  (pgBouncerConfig.ok /\ props.pgBouncerConfig = DeployedConfig) =>
    LET config == pgBouncerConfig.value
    IN  /\ \A f \in Fields : config[f].st = "value"
        /\ config.maxDbConnections =
             getDefaultConfig(props.database.instanceType).value.maxDbConnections
        /\ config.minPoolSize.val <= config.defaultPoolSize.val
        /\ config.defaultPoolSize.val + config.reservePoolSize.val
             <= config.maxDbConnections.val
        /\ config.maxDbConnections.val <= maxConnections.value - 10

C29_Witness ==
  /\ pc = "done"
  /\ props.pgBouncerConfig = DeployedConfig
  /\ props.database.instanceType = "t3.micro"
  /\ pgBouncerConfig.ok
  /\ pgBouncerConfig.value.maxDbConnections = Val(70)

\* the positions of the setup script at the CloudWatch agent
AgentSteps ==
  {"agentDownload", "agentInstall", "agentConfig", "agentFetchConfig",
   "agentStart"}

\* C30: a command that fails at one of the agent's positions ends the
\* script with a status other than 0 and changes nothing else: the unit
\* stays enabled, the daemon stays as it was and, if it runs, runs with
\* the files written in this run, the crontab and the per-boot script stay
\* installed; no position of the script is run after the failure.
C30_AgentFailureUndoesNothing ==
  [][/\ (SetupAbort /\ setup.pc \in AgentSteps) =>
          /\ setup'.pc = "aborted"
          /\ shell'.status = "exit1"
          /\ UNCHANGED <<service, pooler, files, crontab, agent>>
          /\ service'.enabled
          /\ pooler'.running =>
               /\ pooler'.ini = files'.ini
               /\ files'.ini.state = "written"
               /\ files'.ini.boot = boots
          /\ "check-pgbouncer.sh" \in CronEntries'
          /\ files'.checkScript
          /\ files'.perBootScript
     /\ (setup.pc = "aborted" /\ boots' = boots) =>
          /\ setup' = setup
          /\ UNCHANGED <<service, files, crontab, agent, shell>>]_vars

C30_Witness ==
  /\ setup.pc = "aborted"
  /\ shell.status = "exit1"
  /\ shell.failedAt \in AgentSteps
  /\ service.enabled
  /\ pooler.running
  /\ pooler.ini = [state |-> "written", boot |-> boots, secured |-> TRUE]
  /\ "check-pgbouncer.sh" \in CronEntries
  /\ files.perBootScript

====
